---- MODULE Spec2Model ----
(***************************************************************************)
(* A model of BTreeIndex (src/src/btree.cpp): the B+-tree index of         *)
(* BadgerDB over an integer attribute.                                     *)
(*                                                                         *)
(* Pages are modelled as flat arrays of 4-byte words, because the node     *)
(* structs LeafNodeInt and NonLeafNodeInt are overlaid on the raw page     *)
(* frame by a cast and the code indexes their arrays one slot past the     *)
(* end (sortedLeafEntry, sortedNonLeafEntry) and reads a page under the    *)
(* other node type (traverse, insertToLeaf).  An access past the end of a  *)
(* member array that stays inside the frame lands in the member the        *)
(* struct layout puts there; an uninitialised local or an access outside   *)
(* the frame is a nondeterministic choice.                                 *)
(***************************************************************************)
EXTENDS Integers, Sequences, FiniteSets, TLC

(***************************************************************************)
(* Bounds of the model.                                                    *)
(***************************************************************************)
\* words of 4 bytes in one page frame (Page::SIZE / 4 in the program)
PageWords == 8
\* number of tuples of the base relation the constructor loads
MaxInserts == 4
\* number of calls made on the constructed index
MaxOps == 3
\* recursion depth of traverse / iterations of the loops of startScan
MaxDepth == 3

(***************************************************************************)
(* Constants of the program.                                               *)
(***************************************************************************)
\* enum Operator, as the specification gives its encoding
LT == 2
LTE == 4
GTE == 5
GT == 3
Operators == {LT, LTE, GTE, GT}

\* Page::INVALID_NUMBER
INVALID_NUMBER == 0
\* the level insertEntry passes to traverse at the root
RootLevelArg == 99999
\* endScan: PageId nullPage = -1
NullPage == -1
\* currentPageData = nullptr
Nullptr == 0

\* INTARRAYLEAFSIZE: (Page::SIZE - sizeof(PageId)) / (sizeof(int) + sizeof(RecordId))
leafOccupancy == (PageWords - 1) \div 3
\* INTARRAYNONLEAFSIZE: (Page::SIZE - sizeof(int) - sizeof(PageId)) / (sizeof(int) + sizeof(PageId))
nodeOccupancy == (PageWords - 2) \div 2

(***************************************************************************)
(* Layout of the node structs over the words of a frame.  An index past    *)
(* the end of an array gives the word of whatever member follows.          *)
(***************************************************************************)
\* LeafNodeInt { int keyArray[L]; RecordId ridArray[L]; PageId rightSibPageNo; }
LeafKey(i) == i
LeafRidPage(i) == leafOccupancy + 2 * i
LeafRidSlot(i) == leafOccupancy + 2 * i + 1
LeafSib == 3 * leafOccupancy
\* NonLeafNodeInt { int level; int keyArray[K]; PageId pageNoArray[K+1]; }
NonLeafLevel == 0
NonLeafKey(i) == 1 + i
NonLeafPageNo(i) == 1 + nodeOccupancy + i
\* IndexMetaInfo { char relationName[20]; int attrByteOffset; Datatype attrType; PageId rootPageNo; }
MetaRootPageNo == 7
\* the words of relationName: text, never a small number
NameWord == 1000

\* inputs
Keys == {-2, -1, 4}
LoadKeys == {-2}
RidPageNos == {1}
ScanVals == {-2, 5}
\* <<lowOp, highOp>>: the four valid pairs, and a pair with the low operator,
\* the high operator and both operators invalid
ScanOpcodes == {<<GTE, LTE>>, <<GTE, LT>>, <<GT, LTE>>, <<GT, LT>>,
                <<LT, LTE>>, <<GT, GTE>>, <<LTE, GT>>}
\* values an uninitialised or out-of-frame int can hold
GarbageInts == {0, 4}

ZeroPage == [w \in 0..(PageWords - 1) |-> 0]
MetaPage == [w \in 0..(PageWords - 1) |->
               IF w < 5 THEN NameWord ELSE IF w = MetaRootPageNo THEN 2 ELSE 0]

VARIABLES
  pages,              \* the pages of the index file, by PageId (1..)
  pinCnt,             \* pin count of each page in the buffer pool
  rootPageNum, initialRootPageNum,
  treeStack,          \* std::stack<PageId>, top last
  scanExecuting, nextEntry, currentPageNum, currentPageData,
  lowOp, highOp, lowValInt, highValInt,
  inserted,           \* history: the <key, rid> of every insertEntry call that
                      \* returned, in order
  returned,           \* history: record ids returned since the last startScan
  scanOpen,           \* history: the last startScan returned and no endScan or
                      \* startScan was called since
  last,               \* history: the last call, its arguments and its outcome
  nOps                \* history: the number of calls made on the constructed index

progVars == <<pages, pinCnt, rootPageNum, initialRootPageNum, treeStack,
              scanExecuting, nextEntry, currentPageNum, currentPageData,
              lowOp, highOp, lowValInt, highValInt>>
vars == <<pages, pinCnt, rootPageNum, initialRootPageNum, treeStack,
          scanExecuting, nextEntry, currentPageNum, currentPageData,
          lowOp, highOp, lowValInt, highValInt,
          inserted, returned, scanOpen, last, nOps>>

(***************************************************************************)
(* The program state as one record m; m.err is the exception in flight     *)
(* ("" for none), m.ret the page a call returns, m.outRid the out         *)
(* parameter of scanNext, m.wild counts writes                             *)
(* that left the frame, m.reads the pages the call has read or allocated.  *)
(* Every step is the identity once err is set.                             *)
(***************************************************************************)
Cur == [pages |-> pages, pinCnt |-> pinCnt, rootPageNum |-> rootPageNum,
        initialRootPageNum |-> initialRootPageNum, treeStack |-> treeStack,
        scanExecuting |-> scanExecuting, nextEntry |-> nextEntry,
        currentPageNum |-> currentPageNum, currentPageData |-> currentPageData,
        lowOp |-> lowOp, highOp |-> highOp,
        lowValInt |-> lowValInt, highValInt |-> highValInt,
        err |-> "", ret |-> 0, outRid |-> <<0, 0>>, wild |-> 0, reads |-> 0]

Throw(m, e) == IF m.err # "" THEN m ELSE [m EXCEPT !.err = e]

ValidPage(m, p) == p \in 1..Len(m.pages)

(***************************************************************************)
(* The buffer pool (BufMgr), an external contract.                         *)
(***************************************************************************)
\* bufMgr->readPage(file, p, out): pins p; a page the file does not have raises
readPage(m, p) ==
  IF m.err # "" THEN m
  ELSE IF ValidPage(m, p)
       THEN [m EXCEPT !.pinCnt[p] = @ + 1, !.reads = @ + 1]
  ELSE Throw([m EXCEPT !.reads = @ + 1], "InvalidPage")

\* bufMgr->unPinPage(file, p, dirty): a page with no pin raises PageNotPinned,
\* a page not in the pool is ignored
unPinPage(m, p) ==
  IF m.err # "" THEN m
  ELSE IF ~ValidPage(m, p) THEN m
  ELSE IF m.pinCnt[p] = 0 THEN Throw(m, "PageNotPinned")
  ELSE [m EXCEPT !.pinCnt[p] = @ - 1]

\* bufMgr->allocPage(file, out p, out page): a new zeroed page, pinned once;
\* its number is Len(m.pages) + 1
allocPage(m) ==
  IF m.err # "" THEN m
  ELSE [m EXCEPT !.pages = Append(@, ZeroPage), !.pinCnt = Append(@, 1),
                  !.reads = @ + 1]

\* a read of word off of the frame of page p
RdW(m, p, off) ==
  IF ValidPage(m, p) /\ off \in 0..(PageWords - 1) THEN m.pages[p][off] ELSE 0

\* a write of word off of the frame of page p; outside the frame it is counted
WrW(m, p, off, v) ==
  IF m.err # "" THEN m
  ELSE IF ValidPage(m, p) /\ off \in 0..(PageWords - 1)
       THEN [m EXCEPT !.pages[p][off] = v]
  ELSE [m EXCEPT !.wild = @ + 1]

\* frame(pd)[od] = frame(ps)[os]
CopyW(m, pd, od, ps, os) == WrW(m, pd, od, RdW(m, ps, os))

\* the smallest n in lo..hi with n = hi or ~Continue(n): a counting while loop
RECURSIVE LoopEnd(_, _, _)
LoopEnd(Continue(_), n, hi) ==
  IF n < hi /\ Continue(n) THEN LoopEnd(Continue, n + 1, hi) ELSE n

Push(m, p) == IF m.err # "" THEN m ELSE [m EXCEPT !.treeStack = Append(@, p)]
Pop(m) ==
  IF m.err # "" THEN m ELSE [m EXCEPT !.treeStack = SubSeq(@, 1, Len(@) - 1)]
Top(m) == m.treeStack[Len(m.treeStack)]
SetRoot(m, p) == IF m.err # "" THEN m ELSE [m EXCEPT !.rootPageNum = p]
Return(m, v) == IF m.err # "" THEN m ELSE [m EXCEPT !.ret = v]

(***************************************************************************)
(* Node operations.                                                        *)
(***************************************************************************)
\* while (i < leafOccupancy && keyArray[i] < key) i++
LeafLocate(m, p, key) ==
  LET Less(n) == RdW(m, p, LeafKey(n)) < key
  IN LoopEnd(Less, 0, leafOccupancy)

\* keyArray[j] = keyArray[j - 1]; ridArray[j] = ridArray[j - 1]
LeafShiftOne(m, p, j) ==
  CopyW(CopyW(CopyW(m, p, LeafKey(j), p, LeafKey(j - 1)),
              p, LeafRidPage(j), p, LeafRidPage(j - 1)),
        p, LeafRidSlot(j), p, LeafRidSlot(j - 1))

\* for (j = leafOccupancy; j > i; j--)
RECURSIVE LeafShift(_, _, _, _)
LeafShift(m, p, j, i) ==
  IF j <= i THEN m ELSE LeafShift(LeafShiftOne(m, p, j), p, j - 1, i)

\* keyArray[i] = key; ridArray[i] = rid
LeafPut(m, p, i, key, rid) ==
  WrW(WrW(WrW(m, p, LeafKey(i), key), p, LeafRidPage(i), rid[1]),
      p, LeafRidSlot(i), rid[2])

sortedLeafEntry(m, p, key, rid) ==
  LeafPut(LeafShift(m, p, leafOccupancy, LeafLocate(m, p, key)),
          p, LeafLocate(m, p, key), key, rid)

\* while (i < nodeOccupancy && keyArray[i] < key) i++
NonLeafLocate(m, p, key) ==
  LET Less(n) == RdW(m, p, NonLeafKey(n)) < key
  IN LoopEnd(Less, 0, nodeOccupancy)

\* keyArray[i] = key; pageNoArray[i] = pageNoArray[i - 1]; pageNoArray[i + 1] = newPageId
NonLeafPut(m, p, i, key, newPageId) ==
  WrW(CopyW(WrW(m, p, NonLeafKey(i), key),
            p, NonLeafPageNo(i), p, NonLeafPageNo(i - 1)),
      p, NonLeafPageNo(i + 1), newPageId)

\* the loop for (j = nodeOccupancy; j < i; j--) never runs: i <= nodeOccupancy
sortedNonLeafEntry(m, p, key, newPageId) ==
  NonLeafPut(m, p, NonLeafLocate(m, p, key), key, newPageId)

(***************************************************************************)
(* Traversal.                                                              *)
(***************************************************************************)
\* the child index loop of traverse
TraverseIndex(m, p, key) ==
  LET Go(n) == /\ key <= RdW(m, p, NonLeafKey(n))
               /\ RdW(m, p, NonLeafPageNo(n)) # INVALID_NUMBER
  IN LoopEnd(Go, 0, nodeOccupancy)

\* traverse(key, pageNo, level); fuel is the recursion depth left
RECURSIVE traverse(_, _, _, _, _)

\* traverse from the readPage of pageNo on
TraverseAt(a, key, pageNo, fuel) ==
  IF a.err # "" THEN a
  ELSE IF a.treeStack # <<>> /\ Top(a) = pageNo THEN Return(a, pageNo)
  ELSE traverse(unPinPage(Push(a, pageNo), pageNo), key,
                RdW(a, pageNo, NonLeafPageNo(TraverseIndex(a, pageNo, key))),
                RdW(a, pageNo, NonLeafLevel) - 1, fuel - 1)

traverse(m, key, pageNo, level, fuel) ==
  IF m.err # "" THEN m
  ELSE IF pageNo = m.initialRootPageNum THEN Return(m, pageNo)
  ELSE IF level = 0 THEN Return(m, pageNo)
  ELSE IF fuel = 0 THEN Throw(m, "StackOverflow")
  ELSE TraverseAt(readPage(m, pageNo), key, pageNo, fuel)

(***************************************************************************)
(* Insertion.                                                              *)
(***************************************************************************)
\* one round of the copy loop of splitLeaf
SplitLeafMove(m, cur, new, i) ==
  WrW(WrW(CopyW(CopyW(CopyW(m, new, LeafKey(i), cur, LeafKey(i)),
                      new, LeafRidPage(i), cur, LeafRidPage(i)),
                new, LeafRidSlot(i), cur, LeafRidSlot(i)),
          cur, LeafKey(i), 0),
      cur, LeafRidPage(i), 0)

\* the copy loop of splitLeaf, from slot i on
RECURSIVE SplitLeafCopy(_, _, _, _, _, _)
SplitLeafCopy(m, cur, new, key, i, insertedNewEntry) ==
  IF i >= leafOccupancy \/ insertedNewEntry THEN m
  ELSE SplitLeafCopy(SplitLeafMove(m, cur, new, i), cur, new, key, i + 1,
                     RdW(m, cur, LeafKey(i)) = key)

\* one round of the copy loop of splitNonLeaf
SplitNonLeafMove(m, cur, new, i) ==
  WrW(WrW(CopyW(CopyW(m, new, NonLeafKey(i), cur, NonLeafKey(i)),
                new, NonLeafPageNo(i + 1), cur, NonLeafPageNo(i + 1)),
          cur, NonLeafPageNo(i + 1), 0),
      cur, NonLeafKey(i), 0)

\* the copy loop of splitNonLeaf, from slot i on
RECURSIVE SplitNonLeafCopy(_, _, _, _, _, _)
SplitNonLeafCopy(m, cur, new, key, i, insertedNewEntry) ==
  IF i >= nodeOccupancy \/ insertedNewEntry THEN m
  ELSE SplitNonLeafCopy(SplitNonLeafMove(m, cur, new, i), cur, new, key, i + 1,
                        RdW(m, cur, NonLeafKey(i)) = key)

\* the last loop of splitNonLeaf: for (i = 0; i < (nodeOccupancy + 1) / 2; i++)
RECURSIVE SplitNonLeafShift(_, _, _)
SplitNonLeafShift(m, new, i) ==
  IF i >= (nodeOccupancy + 1) \div 2 THEN m
  ELSE SplitNonLeafShift(
         CopyW(CopyW(m, new, NonLeafKey(i), new, NonLeafKey(i + 1)),
               new, NonLeafPageNo(i), new, NonLeafPageNo(i + 1)),
         new, i + 1)

RECURSIVE insertToNonLeaf(_, _, _, _)

\* splitNonLeaf, if (pageNo == rootPageNum): the new root page newRootPageNo
SplitNonLeafRoot(m, pageNo, newRootPageNo) ==
  Push(unPinPage(SetRoot(WrW(allocPage(m), newRootPageNo, NonLeafLevel,
                             RdW(m, pageNo, NonLeafLevel) + 1),
                         newRootPageNo),
                 newRootPageNo),
       newRootPageNo)

\* splitNonLeaf, if (!treeStack.empty()): the first key of the new node goes up
SplitNonLeafUp(m, newPageNo) ==
  IF m.err = "" /\ m.treeStack # <<>>
  THEN insertToNonLeaf(Pop(m), RdW(m, newPageNo, NonLeafKey(0)), Top(m), newPageNo)
  ELSE m

\* splitNonLeaf from the allocPage of the sibling newPageNo on
SplitNonLeafAt(m, pageNo, key, newPageNo) ==
  unPinPage(
    unPinPage(
      SplitNonLeafShift(
        SplitNonLeafUp(
          CopyW(SplitNonLeafCopy(m, pageNo, newPageNo, key,
                                 (nodeOccupancy + 1) \div 2, FALSE),
                newPageNo, NonLeafLevel, pageNo, NonLeafLevel),
          newPageNo),
        newPageNo, 0),
      pageNo),
    pageNo)

\* splitNonLeaf after the root test
SplitNonLeafSibling(m, pageNo, key) ==
  SplitNonLeafAt(allocPage(m), pageNo, key, Len(m.pages) + 1)

splitNonLeaf(m, pageNo, key, newSiblingPage) ==
  IF m.err # "" THEN m
  ELSE SplitNonLeafSibling(
         IF pageNo = m.rootPageNum
         THEN SplitNonLeafRoot(m, pageNo, Len(m.pages) + 1) ELSE m,
         pageNo, key)

NonLeafOccupancy(m, p) ==
  LET Live(n) == RdW(m, p, NonLeafPageNo(n)) # INVALID_NUMBER
  IN LoopEnd(Live, 0, nodeOccupancy)

\* insertToNonLeaf from the readPage of pageNo on; the page is never unpinned
InsertToNonLeafAt(a, key, pageNo, newSiblingPage) ==
  IF a.err # "" THEN a
  ELSE IF NonLeafOccupancy(a, pageNo) = nodeOccupancy
       THEN splitNonLeaf(a, pageNo, key, newSiblingPage)
  ELSE sortedNonLeafEntry(a, pageNo, key, newSiblingPage)

insertToNonLeaf(m, key, pageNo, newSiblingPage) ==
  InsertToNonLeafAt(readPage(m, pageNo), key, pageNo, newSiblingPage)

\* newNode->rightSibPageNo = currNode->rightSibPageNo; currNode->rightSibPageNo = newLeafPageNo
SplitLeafLink(m, pageNo, newLeafPageNo) ==
  WrW(CopyW(m, newLeafPageNo, LeafSib, pageNo, LeafSib),
      pageNo, LeafSib, newLeafPageNo)

\* leftmostKey = newNode->keyArray[0]; insertToNonLeaf(leftmostKey, parent, newLeafPageNo)
SplitLeafUp(m, parentPageId, newLeafPageNo) ==
  insertToNonLeaf(m, RdW(m, newLeafPageNo, LeafKey(0)), parentPageId, newLeafPageNo)

\* splitLeaf, if (pageNo == initialRootPageNum)
SplitLeafRoot(m, key, pageNo, newPageNo, newLeafPageNo) ==
  unPinPage(
    unPinPage(
      SplitLeafUp(
        SplitLeafCopy(
          SplitLeafLink(
            allocPage(SetRoot(WrW(allocPage(m), newPageNo, NonLeafLevel, 1),
                              newPageNo)),
            pageNo, newLeafPageNo),
          pageNo, newLeafPageNo, key, leafOccupancy \div 2, FALSE),
        newPageNo, newLeafPageNo),
      newPageNo),
    newLeafPageNo)

\* splitLeaf, else branch: parentPageId = treeStack.top(); treeStack.pop()
SplitLeafParent(m, newLeafPageNo) ==
  IF m.err # "" THEN m
  ELSE IF m.treeStack = <<>> THEN Throw(m, "Crash")
  ELSE SplitLeafUp(Pop(m), Top(m), newLeafPageNo)

\* splitLeaf, else branch
SplitLeafInner(m, key, pageNo, newLeafPageNo) ==
  unPinPage(
    SplitLeafParent(
      SplitLeafCopy(SplitLeafLink(allocPage(m), pageNo, newLeafPageNo),
                    pageNo, newLeafPageNo, key, leafOccupancy \div 2, FALSE),
      newLeafPageNo),
    newLeafPageNo)

\* the new <key, rid> is stored in neither leaf
splitLeaf(m, key, rid, pageNo) ==
  IF m.err # "" THEN m
  ELSE unPinPage(
         IF pageNo = m.initialRootPageNum
         THEN SplitLeafRoot(m, key, pageNo, Len(m.pages) + 1, Len(m.pages) + 2)
         ELSE SplitLeafInner(m, key, pageNo, Len(m.pages) + 1),
         pageNo)

LeafOccupancy(m, p) ==
  LET Live(n) == RdW(m, p, LeafRidPage(n)) # INVALID_NUMBER
  IN LoopEnd(Live, 0, leafOccupancy)

\* insertToLeaf from the readPage of pageNo on
InsertToLeafAt(a, key, rid, pageNo) ==
  IF a.err # "" THEN a
  ELSE IF LeafOccupancy(a, pageNo) = leafOccupancy THEN splitLeaf(a, key, rid, pageNo)
  ELSE unPinPage(sortedLeafEntry(a, pageNo, key, rid), pageNo)

insertToLeaf(m, key, rid, pageNo) ==
  InsertToLeafAt(readPage(m, pageNo), key, rid, pageNo)

\* while (!treeStack.empty()) treeStack.pop(): reached only on a normal return
ClearStack(b) == IF b.err # "" THEN b ELSE [b EXCEPT !.treeStack = <<>>]

\* insertEntry after traverse returned the leaf a.ret
InsertEntryAt(a, key, rid) == ClearStack(insertToLeaf(a, key, rid, a.ret))

insertEntry(m, key, rid) ==
  InsertEntryAt(traverse(m, key, m.rootPageNum, RootLevelArg, MaxDepth), key, rid)

(***************************************************************************)
(* Range scan.                                                             *)
(***************************************************************************)
endScan(m) ==
  IF m.err # "" THEN m
  ELSE IF m.scanExecuting = FALSE THEN Throw(m, "ScanNotInitialized")
  ELSE [m EXCEPT !.scanExecuting = FALSE, !.currentPageData = Nullptr,
                 !.currentPageNum = NullPage, !.nextEntry = -1]

\* the test startScan and scanNext apply to a key: its operands are the
\* members lowOp and highOp, not lowValInt and highValInt
ScanMatch(key, lo, hi) ==
  \/ (lo = GTE /\ hi = LTE) /\ (key >= lo /\ key <= hi)
  \/ (lo = GTE /\ hi = LT) /\ (key >= lo /\ key < hi)
  \/ (lo = GT /\ hi = LTE) /\ (key > lo /\ key <= hi)
  \/ (lo = GT /\ hi = LT) /\ (key >= lo /\ key <= hi)

\* bufMgr->readPage(file, p, currentPageData): the pointer is set on success
ReadInto(a, p) ==
  IF a.err # "" THEN a ELSE [a EXCEPT !.currentPageData = p]

\* currentPageNum = p; bufMgr->readPage(file, currentPageNum, currentPageData)
ReadCurrent(m, p) ==
  IF m.err # "" THEN m
  ELSE ReadInto(readPage([m EXCEPT !.currentPageNum = p], p), p)

\* findNextNonLeafNode computes a slot and stores nothing in nextNodeNum:
\* the caller's nextPageNum keeps the value its stack slot held
findNextNonLeafNode(m, p, key) ==
  LET Empty(n) == RdW(m, p, NonLeafPageNo(nodeOccupancy - n)) = 0
      i == nodeOccupancy - LoopEnd(Empty, 0, nodeOccupancy + 1)
      Geq(n) == RdW(m, p, NonLeafKey(i - n - 1)) >= key
  IN IF i <= 0 THEN i ELSE i - LoopEnd(Geq, 0, i)

\* the values the uninitialised PageId nextPageNum can hold; nothing writes the
\* variable, so one call of startScan sees one value in every round of its loop
GarbagePages(m) == 0..(Len(m.pages) + 1)

\* one round of the descent loop of startScan with nextPageNum = g
ScanDescendStep(m, g) == ReadCurrent(unPinPage(m, m.currentPageNum), g)

\* the descent loop of startScan: while (!foundLeaf)
RECURSIVE ScanDescend(_, _, _)
ScanDescend(m, g, fuel) ==
  IF m.err # "" THEN m
  ELSE IF fuel = 0 THEN Throw(m, "Diverge")
  ELSE IF RdW(m, m.currentPageData, NonLeafLevel) = 1
       THEN ScanDescendStep(m, g)
  ELSE ScanDescend(ScanDescendStep(m, g), g, fuel - 1)

\* the first slot of the current leaf the test accepts, or leafOccupancy
LeafFirstMatch(m) ==
  LET NoMatch(n) ==
        ~ScanMatch(RdW(m, m.currentPageData, LeafKey(n)), m.lowOp, m.highOp)
  IN LoopEnd(NoMatch, 0, leafOccupancy)

\* the leaf loop of startScan: while (true) { for (i = 0; i < leafOccupancy; i++) }
RECURSIVE ScanLeaves(_, _)
ScanLeaves(m, fuel) ==
  IF m.err # "" THEN m
  ELSE IF fuel = 0 THEN Throw(m, "Diverge")
  ELSE IF LeafFirstMatch(m) < leafOccupancy
       THEN [m EXCEPT !.scanExecuting = TRUE, !.nextEntry = LeafFirstMatch(m)]
  ELSE IF RdW(m, m.currentPageData, LeafSib) # 0
       THEN ScanLeaves(ReadCurrent(unPinPage(m, m.currentPageNum),
                                   RdW(m, m.currentPageData, LeafSib)),
                       fuel - 1)
  ELSE Throw(unPinPage(m, m.currentPageNum), "NoSuchKey")

\* startScan, the last statement: bufMgr->unPinPage(file, currentPageNum, false)
StartScanFinish(f) == unPinPage(f, f.currentPageNum)

\* startScan from scanExecuting = true on
StartScanSearch(c) ==
  {StartScanFinish(ScanLeaves(e, MaxDepth)) :
     e \in IF c.err = "" /\ c.initialRootPageNum # c.rootPageNum
           THEN {ScanDescend(c, g, MaxDepth) : g \in GarbagePages(c)} ELSE {c}}

\* a startScan that reads the root before it tests the range
StartScanRangeLate(b) ==
  IF b.lowValInt > b.highValInt
  THEN {Throw(ReadCurrent(b, b.rootPageNum), "BadScanrange")}
  ELSE StartScanSearch(ReadCurrent([b EXCEPT !.scanExecuting = TRUE], b.rootPageNum))

\* startScan after the opcode test
StartScanRange(b) ==
  IF b.lowValInt > b.highValInt THEN {Throw(b, "BadScanrange")}
  ELSE StartScanSearch(ReadCurrent([b EXCEPT !.scanExecuting = TRUE], b.rootPageNum))

\* a startScan that tests the range before the operators
StartScanRangeFirst(a, lowValParm, lowOpParm, highValParm, highOpParm) ==
  IF lowValParm > highValParm THEN {Throw(a, "BadScanrange")}
  ELSE IF (highOpParm # LTE /\ highOpParm # LT) \/ (lowOpParm # GTE /\ lowOpParm # GT)
  THEN {Throw(a, "BadOpcodes")}
  ELSE StartScanRange([a EXCEPT !.lowOp = lowOpParm, !.highOp = highOpParm,
                                !.lowValInt = lowValParm,
                                !.highValInt = highValParm])

\* startScan after the end of the scan in progress
StartScanChecked(a, lowValParm, lowOpParm, highValParm, highOpParm) ==
  IF (highOpParm # LTE /\ highOpParm # LT) \/ (lowOpParm # GTE /\ lowOpParm # GT)
  THEN {Throw(a, "BadOpcodes")}
  ELSE StartScanRange([a EXCEPT !.lowOp = lowOpParm, !.highOp = highOpParm,
                                !.lowValInt = lowValParm,
                                !.highValInt = highValParm])

\* a startScan that leaves the scan in progress as it is
StartScanKeep(m, lowValParm, lowOpParm, highValParm, highOpParm) ==
  StartScanChecked(m, lowValParm, lowOpParm, highValParm, highOpParm)

\* startScan(lowValParm, lowOpParm, highValParm, highOpParm): the set of outcomes
startScan(m, lowValParm, lowOpParm, highValParm, highOpParm) ==
  StartScanChecked(IF m.scanExecuting = TRUE THEN endScan(m) ELSE m,
                   lowValParm, lowOpParm, highValParm, highOpParm)

\* a scanNext that leaves nextEntry as it is
ScanNextStay(b, key) ==
  IF ~ScanMatch(key, b.lowOp, b.highOp) THEN Throw(b, "IndexScanCompleted")
  ELSE IF RdW(b, b.currentPageData, LeafSib) = 0
       THEN Throw([b EXCEPT !.outRid =
                     <<RdW(b, b.currentPageData, LeafRidPage(b.nextEntry)),
                       RdW(b, b.currentPageData, LeafRidSlot(b.nextEntry))>>],
                  "IndexScanCompleted")
  ELSE [b EXCEPT !.outRid = <<RdW(b, b.currentPageData, LeafRidPage(b.nextEntry)),
                              RdW(b, b.currentPageData, LeafRidSlot(b.nextEntry))>>]

\* scanNext, lines 804-832, with key = keyArray[nextEntry]
ScanNextStep(b, key) ==
  IF ~ScanMatch(key, b.lowOp, b.highOp) THEN Throw(b, "IndexScanCompleted")
  ELSE IF RdW(b, b.currentPageData, LeafSib) = 0
       THEN Throw([b EXCEPT !.outRid =
                     <<RdW(b, b.currentPageData, LeafRidPage(b.nextEntry)),
                       RdW(b, b.currentPageData, LeafRidSlot(b.nextEntry))>>],
                  "IndexScanCompleted")
  ELSE [b EXCEPT !.outRid = <<RdW(b, b.currentPageData, LeafRidPage(b.nextEntry)),
                              RdW(b, b.currentPageData, LeafRidSlot(b.nextEntry))>>,
                 !.nextEntry = @ + 1]

\* keyArray[nextEntry]: a slot before the frame holds any value
ScanNextKeys(b) ==
  IF LeafKey(b.nextEntry) \in 0..(PageWords - 1)
  THEN {RdW(b, b.currentPageData, LeafKey(b.nextEntry))} ELSE GarbageInts

ScanNextEmit(b) ==
  IF b.err # "" THEN {b} ELSE {ScanNextStep(b, key) : key \in ScanNextKeys(b)}

\* nextEntry = 0 after the read of the right sibling
ScanNextReset(r) == IF r.err # "" THEN r ELSE [r EXCEPT !.nextEntry = 0]

\* scanNext, if (nextEntry == leafOccupancy)
ScanNextSibling(a) ==
  IF RdW(a, a.currentPageData, LeafSib) = 0
  THEN Throw(unPinPage(a, a.currentPageNum), "IndexScanCompleted")
  ELSE ScanNextReset(ReadCurrent(unPinPage(a, a.currentPageNum),
                                 RdW(a, a.currentPageData, LeafSib)))

\* scanNext from the readPage of currentPageNum on
ScanNextAt(a) ==
  IF a.err # "" THEN {a}
  ELSE ScanNextEmit(IF a.nextEntry = leafOccupancy THEN ScanNextSibling(a) ELSE a)

\* scanNext(outRid): the set of outcomes
scanNext(m) ==
  IF ~m.scanExecuting THEN {Throw(m, "ScanNotInitialized")}
  ELSE ScanNextAt(ReadCurrent(m, m.currentPageNum))

(***************************************************************************)
(* Close and open again.                                                   *)
(***************************************************************************)
\* bufMgr->flushFile(file): with a page of the file pinned the pool either
\* raises PagePinned or, if it does not test the pins, writes the pages
flushFile(m) ==
  IF \A p \in DOMAIN m.pinCnt : m.pinCnt[p] = 0
  THEN {m} ELSE {m, Throw(m, "PagePinned")}

\* ~BTreeIndex: the set of outcomes
Destructor(m) == flushFile([m EXCEPT !.scanExecuting = FALSE])

\* the constructor, lines 39-47: the members of the new object; those it
\* does not set are as in Init
OpenMembers(m) ==
  [m EXCEPT !.currentPageData = Nullptr, !.rootPageNum = 2,
            !.scanExecuting = FALSE, !.nextEntry = -1, !.treeStack = <<>>,
            !.currentPageNum = 0, !.lowOp = 0, !.highOp = 0,
            !.lowValInt = 0, !.highValInt = 0]

\* rootPageNum = metaInfoPage->rootPageNo; initialRootPageNum = rootPageNum
OpenRoot(a, headerPageNum) ==
  IF a.err # "" THEN a
  ELSE [a EXCEPT !.rootPageNum = RdW(a, headerPageNum, MetaRootPageNo),
                 !.initialRootPageNum = RdW(a, headerPageNum, MetaRootPageNo)]

\* the constructor on an existing file, lines 57-72, with
\* headerPageNum = file->getFirstPageNo()
OpenExisting(m, headerPageNum) ==
  unPinPage(OpenRoot(readPage(OpenMembers(m), headerPageNum), headerPageNum),
            headerPageNum)

(***************************************************************************)
(* The state machine.                                                      *)
(***************************************************************************)
\* the constructor on a new file over an empty relation; the members the
\* constructor leaves unset (currentPageNum, the scan bounds) are never read
\* before startScan sets them
Init ==
  /\ pages = <<MetaPage, ZeroPage>>
  /\ pinCnt = <<0, 0>>
  /\ rootPageNum = 2
  /\ initialRootPageNum = 2
  /\ treeStack = <<>>
  /\ scanExecuting = FALSE
  /\ nextEntry = -1
  /\ currentPageNum = 0
  /\ currentPageData = Nullptr
  /\ lowOp = 0
  /\ highOp = 0
  /\ lowValInt = 0
  /\ highValInt = 0
  /\ inserted = <<>>
  /\ returned = <<>>
  /\ scanOpen = FALSE
  /\ last = [op |-> "new", args |-> <<>>, err |-> "", ret |-> <<>>,
             reads |-> 0, exec |-> FALSE]
  /\ nOps = 0

Commit(m) ==
  /\ pages' = m.pages
  /\ pinCnt' = m.pinCnt
  /\ rootPageNum' = m.rootPageNum
  /\ initialRootPageNum' = m.initialRootPageNum
  /\ treeStack' = m.treeStack
  /\ scanExecuting' = m.scanExecuting
  /\ nextEntry' = m.nextEntry
  /\ currentPageNum' = m.currentPageNum
  /\ currentPageData' = m.currentPageData
  /\ lowOp' = m.lowOp
  /\ highOp' = m.highOp
  /\ lowValInt' = m.lowValInt
  /\ highValInt' = m.highValInt

\* a call that overflowed the stack, never returned or crashed ends the run,
\* and so do an exception that leaves the destructor and a constructor that
\* raised
Fatal == {"StackOverflow", "Diverge", "Crash", "PagePinned"}
Running == last.err \notin Fatal /\ (last.op = "load" => last.err = "")

\* the operators the interface allows: a low operator and a high operator
ValidOpcodes(lowOpParm, highOpParm) ==
  lowOpParm \in {GT, GTE} /\ highOpParm \in {LT, LTE}

Outcome(op, args, m) ==
  [op |-> op, args |-> args, err |-> m.err,
   ret |-> IF m.err = "" /\ op = "scanNext" THEN m.outRid ELSE <<>>,
   reads |-> m.reads, exec |-> scanExecuting]

\* one round of the constructor's loop over the base relation (lines 112-124):
\* insertEntry(key, recordId) for the next tuple
Load ==
  /\ Running
  /\ nOps = 0
  /\ Len(inserted) < MaxInserts
  /\ \E key \in LoadKeys, pn \in RidPageNos :
       LET rid == <<pn, Len(inserted) + 1>>
           m == insertEntry(Cur, key, rid)
       IN /\ Commit(m)
          /\ inserted' = IF m.err = "" THEN Append(inserted, <<key, rid>>)
                          ELSE inserted
          /\ last' = Outcome("load", <<key, rid>>, m)
  /\ UNCHANGED <<returned, scanOpen, nOps>>

\* a call of insertEntry on the constructed index
Insert ==
  /\ Running
  /\ nOps < MaxOps
  /\ \E key \in Keys, pn \in RidPageNos :
       LET rid == <<pn, Len(inserted) + 1>>
           m == insertEntry(Cur, key, rid)
       IN /\ Commit(m)
          /\ inserted' = IF m.err = "" THEN Append(inserted, <<key, rid>>)
                          ELSE inserted
          /\ last' = Outcome("insertEntry", <<key, rid>>, m)
  /\ nOps' = nOps + 1
  /\ UNCHANGED <<returned, scanOpen>>

StartScan ==
  /\ Running
  /\ nOps < MaxOps
  /\ \E lowVal \in ScanVals, highVal \in ScanVals, ops \in ScanOpcodes :
       \E m \in startScan(Cur, lowVal, ops[1], highVal, ops[2]) :
          /\ Commit(m)
          /\ last' = Outcome("startScan", <<lowVal, ops[1], highVal, ops[2]>>, m)
          /\ returned' = IF m.err = "" THEN <<>> ELSE returned
          /\ scanOpen' = (m.err = "")
  /\ nOps' = nOps + 1
  /\ UNCHANGED inserted

ScanNext ==
  /\ Running
  /\ nOps < MaxOps
  /\ \E m \in scanNext(Cur) :
       /\ Commit(m)
       /\ last' = Outcome("scanNext", <<>>, m)
       /\ returned' = IF m.err = "" THEN Append(returned, m.outRid) ELSE returned
  /\ nOps' = nOps + 1
  /\ UNCHANGED <<inserted, scanOpen>>

EndScan ==
  /\ Running
  /\ nOps < MaxOps
  /\ LET m == endScan(Cur)
     IN /\ Commit(m)
        /\ last' = Outcome("endScan", <<>>, m)
  /\ scanOpen' = FALSE
  /\ nOps' = nOps + 1
  /\ UNCHANGED <<inserted, returned>>

\* the index is destroyed and constructed again on its file
Reopen ==
  /\ Running
  /\ nOps < MaxOps
  /\ \E d \in Destructor(Cur) :
       LET m == IF d.err = "" THEN OpenExisting(d, 1) ELSE d
       IN /\ Commit(m)
          /\ last' = Outcome("reopen", <<>>, m)
  /\ scanOpen' = FALSE
  /\ nOps' = nOps + 1
  /\ UNCHANGED <<inserted, returned>>

Next == Load \/ Insert \/ StartScan \/ ScanNext \/ EndScan \/ Reopen

Spec == Init /\ [][Next]_vars

(***************************************************************************)
(* What the interface promises, in terms of the calls made so far.         *)
(***************************************************************************)
\* key satisfies "key lowOp lowVal" and "key highOp highVal"
Qualifies(key, lowVal, lowOpParm, highVal, highOpParm) ==
  /\ IF lowOpParm = GT THEN key > lowVal ELSE key >= lowVal
  /\ IF highOpParm = LT THEN key < highVal ELSE key <= highVal

\* the record ids of the inserted entries that qualify, in ascending key
\* order, entries of equal key in the order of their insertion
ExpectedRids(lowVal, lowOpParm, highVal, highOpParm) ==
  LET Q == {i \in 1..Len(inserted) :
              Qualifies(inserted[i][1], lowVal, lowOpParm, highVal, highOpParm)}
      Before(j, i) == \/ inserted[j][1] < inserted[i][1]
                      \/ inserted[j][1] = inserted[i][1] /\ j < i
      Rank(i) == Cardinality({j \in Q : Before(j, i)}) + 1
  IN [r \in 1..Cardinality(Q) |-> inserted[CHOOSE i \in Q : Rank(i) = r][2]]

IsPrefix(s, t) == Len(s) <= Len(t) /\ \A i \in 1..Len(s) : s[i] = t[i]

DistinctKeys ==
  \A i, j \in 1..Len(inserted) : i # j => inserted[i][1] # inserted[j][1]

Unpinned(cnt) == \A p \in DOMAIN cnt : cnt[p] = 0

\* the last call was a startScan with valid operators
ValidStart ==
  last.op = "startScan" /\ ValidOpcodes(last.args[2], last.args[4])

\* the scan in progress has returned all it will return
ScanDone == scanOpen /\ last.op = "scanNext" /\ last.err = "IndexScanCompleted"

\* C1: after inserts of distinct keys into an empty index, a startScan whose
\* range covers every inserted key succeeds, and the scanNext calls up to
\* IndexScanCompleted return the record id of every inserted entry exactly
\* once, in non-decreasing key order.
C1_RoundTrip ==
  /\ (/\ ValidStart
      /\ inserted # <<>>
      /\ DistinctKeys
      /\ \A i \in 1..Len(inserted) :
           Qualifies(inserted[i][1], last.args[1], last.args[2],
                     last.args[3], last.args[4]))
     => last.err = ""
  /\ (/\ scanOpen
      /\ DistinctKeys
      /\ \A i \in 1..Len(inserted) :
           Qualifies(inserted[i][1], lowValInt, lowOp, highValInt, highOp))
     => /\ IsPrefix(returned, ExpectedRids(lowValInt, lowOp, highValInt, highOp))
        /\ ScanDone => Len(returned) = Len(inserted)

\* C2: for every valid scan with lowVal <= highVal for which an entry
\* qualifies, startScan succeeds and the record ids scanNext returns up to
\* IndexScanCompleted are exactly those of the entries whose key satisfies
\* both predicates against the bound values, in ascending key order.
C2_ScanExact ==
  /\ (/\ ValidStart
      /\ last.args[1] <= last.args[3]
      /\ ExpectedRids(last.args[1], last.args[2], last.args[3], last.args[4]) # <<>>)
     => last.err = ""
  /\ scanOpen
     => /\ IsPrefix(returned, ExpectedRids(lowValInt, lowOp, highValInt, highOp))
        /\ ScanDone
           => returned = ExpectedRids(lowValInt, lowOp, highValInt, highOp)

\* the slots i < j of the root leaf are live and hold the same key
EqualLive(i, j) ==
  /\ pages[rootPageNum][LeafRidPage(i)] # INVALID_NUMBER
  /\ pages[rootPageNum][LeafRidPage(j)] # INVALID_NUMBER
  /\ pages[rootPageNum][LeafKey(i)] = pages[rootPageNum][LeafKey(j)]

\* C3: a scan with lowVal = highVal = k, GTE and LTE returns exactly the
\* entries of key k, entries of equal key in the order of their insertion: an
\* inserted key is placed to the right of the equal keys in its leaf (the
\* slot number of a record id is the rank of its insertion).
C3_PointScan ==
  /\ (/\ ValidStart
      /\ last.args[2] = GTE /\ last.args[4] = LTE
      /\ last.args[1] = last.args[3]
      /\ \E i \in 1..Len(inserted) : inserted[i][1] = last.args[1])
     => last.err = ""
  /\ (ScanDone /\ lowOp = GTE /\ highOp = LTE /\ lowValInt = highValInt)
     => returned = ExpectedRids(lowValInt, GTE, highValInt, LTE)
  /\ rootPageNum = initialRootPageNum
     => \A i, j \in 0..(leafOccupancy - 1) :
          (i < j /\ EqualLive(i, j))
          => pages[rootPageNum][LeafRidSlot(i)] < pages[rootPageNum][LeafRidSlot(j)]

\* C4: startScan with valid operators and lowVal <= highVal raises NoSuchKey
\* if and only if no inserted entry satisfies both predicates (so always when
\* lowVal = highVal and one of the operators is exclusive).
C4_NoSuchKey ==
  (ValidStart /\ last.args[1] <= last.args[3])
  => (last.err = "NoSuchKey"
      <=> ExpectedRids(last.args[1], last.args[2], last.args[3], last.args[4]) = <<>>)

\* C5: startScan raises BadOpcodes whenever lowOp is not GT or GTE or highOp
\* is not LT or LTE, whatever the bounds: also when lowVal > highVal.
C5_BadOpcodesFirst ==
  /\ \A lowOpParm \in Operators, highOpParm \in Operators :
       \A lowVal \in ScanVals, highVal \in ScanVals :
          ~ValidOpcodes(lowOpParm, highOpParm)
          => \A m \in startScan(Cur, lowVal, lowOpParm, highVal, highOpParm) :
                m.err = "BadOpcodes"
  /\ (last.op = "startScan" /\ ~ValidOpcodes(last.args[2], last.args[4]))
     => last.err = "BadOpcodes"

\* a startScan with invalid operators and lowVal > highVal raised BadOpcodes
C5_Witness ==
  /\ last.op = "startScan"
  /\ ~ValidOpcodes(last.args[2], last.args[4])
  /\ last.args[1] > last.args[3]
  /\ last.err = "BadOpcodes"

\* C6: startScan with valid operators and lowVal > highVal raises
\* BadScanrange before it reads or pins a page; with lowVal <= highVal it
\* never raises BadScanrange.
C6_BadScanrange ==
  /\ \A lowOpParm \in {GT, GTE}, highOpParm \in {LT, LTE} :
       \A lowVal \in ScanVals, highVal \in ScanVals :
          \A m \in startScan(Cur, lowVal, lowOpParm, highVal, highOpParm) :
             IF lowVal > highVal
             THEN m.err = "BadScanrange" /\ m.reads = 0 /\ m.pinCnt = pinCnt
             ELSE m.err # "BadScanrange"
  /\ ValidStart
     => IF last.args[1] > last.args[3]
        THEN last.err = "BadScanrange" /\ last.reads = 0
        ELSE last.err # "BadScanrange"

\* a startScan with valid operators and lowVal > highVal on a loaded index
\* raised BadScanrange
C6_Witness ==
  /\ ValidStart
  /\ last.args[1] > last.args[3]
  /\ last.err = "BadScanrange"
  /\ inserted # <<>>

\* C7: scanNext and endScan raise ScanNotInitialized exactly when no scan is
\* in progress (no startScan has returned since the start or since the last
\* endScan), and then leave the cursor and every pin count as they were.
C7_ScanNotInitialized ==
  [][last'.op \in {"scanNext", "endScan"}
     => /\ last'.err = "ScanNotInitialized" <=> ~scanOpen
        /\ last'.err = "ScanNotInitialized" => UNCHANGED progVars]_vars

\* C8: a startScan called while a scan is executing has the outcome and the
\* resulting state of endScan followed by the same startScan.
C8_RestartScan ==
  [][(last'.op = "startScan" /\ scanExecuting)
     => \E m \in startScan(endScan(Cur), last'.args[1], last'.args[2],
                           last'.args[3], last'.args[4]) :
           Commit(m) /\ last'.err = m.err]_vars

\* a startScan called while a scan was executing searched the index
C8_Witness == last.op = "startScan" /\ last.exec /\ last.err = "NoSuchKey"

\* C9: an insert that completes, issued while no scan is executing and no
\* page is pinned, leaves the pin count of every page zero.
C9_InsertPins ==
  [][(/\ last'.op \in {"load", "insertEntry"}
      /\ last'.err = ""
      /\ ~scanExecuting /\ ~scanOpen
      /\ Unpinned(pinCnt))
     => Unpinned(pinCnt')]_vars

\* C10: between a startScan that returned and the endScan that follows,
\* exactly one page is pinned, the cursor's leaf, with pin count 1; after an
\* endScan that returned every pin count is zero.
C10_ScanPins ==
  /\ scanOpen
     => /\ currentPageNum \in DOMAIN pinCnt
        /\ \A p \in DOMAIN pinCnt :
             pinCnt[p] = IF p = currentPageNum THEN 1 ELSE 0
  /\ (last.op = "endScan" /\ last.err = "") => Unpinned(pinCnt)

\* C11: a startScan that raises NoSuchKey and a scanNext that raises
\* IndexScanCompleted leave no page pinned that they pinned (every pin count
\* is what it was before the call), and no call unpins a page whose pin
\* count is zero.
C11_FailurePins ==
  [][/\ (last'.op = "startScan" /\ last'.err = "NoSuchKey") => pinCnt' = pinCnt
     /\ (last'.op = "scanNext" /\ last'.err = "IndexScanCompleted")
        => pinCnt' = pinCnt
     /\ last'.err # "PageNotPinned"]_vars

(***************************************************************************)
(* The tree as the pages of the file hold it.                              *)
(***************************************************************************)
\* word off of page p; 0 for a page the file does not have
Word(p, off) == IF p \in 1..Len(pages) THEN pages[p][off] ELSE 0

\* the root is a leaf until the first split replaces it
RootIsLeaf == rootPageNum = initialRootPageNum

\* the number of live entries of leaf p: the slots before the first slot
\* whose record id has page number INVALID_NUMBER
LiveCount(p) == LeafOccupancy(Cur, p)

\* the live keys of leaf p, in slot order
LiveKeys(p) == [i \in 1..LiveCount(p) |-> Word(p, LeafKey(i - 1))]

\* the number of separators of internal node p: separator i is populated
\* when the child to its right, child[i + 1], is set
SepCount(p) ==
  LET Set(n) == Word(p, NonLeafPageNo(n + 1)) # INVALID_NUMBER
  IN LoopEnd(Set, 0, nodeOccupancy)

\* the children of internal node p: child[0] .. child[SepCount(p)]
Children(p) == {Word(p, NonLeafPageNo(i)) : i \in 0..SepCount(p)}

\* the pages h levels below page p
RECURSIVE Below(_, _)
Below(p, h) ==
  IF h <= 0 \/ p \notin 1..Len(pages) THEN {p}
  ELSE UNION {Below(c, h - 1) : c \in Children(p)}

\* the leaves of the tree
TreeLeaves ==
  IF RootIsLeaf THEN {rootPageNum}
  ELSE Below(rootPageNum, Word(rootPageNum, NonLeafLevel))

\* the pages met from p along rightSibPageNo, at most fuel of them
RECURSIVE SibChain(_, _)
SibChain(p, fuel) ==
  IF p \notin 1..Len(pages) \/ fuel = 0 THEN <<>>
  ELSE <<p>> \o SibChain(Word(p, LeafSib), fuel - 1)

\* the chain from p ends at INVALID_NUMBER within fuel pages
RECURSIVE ChainEnds(_, _)
ChainEnds(p, fuel) ==
  IF p = INVALID_NUMBER THEN TRUE
  ELSE IF p \notin 1..Len(pages) \/ fuel = 0 THEN FALSE
  ELSE ChainEnds(Word(p, LeafSib), fuel - 1)

\* the live keys of the leaves of a chain, in chain order
RECURSIVE ChainKeys(_)
ChainKeys(chain) ==
  IF chain = <<>> THEN <<>> ELSE LiveKeys(Head(chain)) \o ChainKeys(Tail(chain))

NonDecreasing(q) == \A i \in 1..(Len(q) - 1) : q[i] <= q[i + 1]

\* the sibling chain from the first leaf of the file, the leftmost leaf:
\* a split puts the new leaf to the right
LeafChain == SibChain(initialRootPageNum, Len(pages))

\* C12: after any inserts the live keys of every leaf are non-decreasing,
\* and the chain of right siblings from the leftmost leaf visits every leaf
\* once and nothing else, ends at INVALID_NUMBER, and yields non-decreasing
\* keys across the leaves.
C12_LeafOrder ==
  /\ ChainEnds(initialRootPageNum, Len(pages))
  /\ \A i, j \in 1..Len(LeafChain) : i # j => LeafChain[i] # LeafChain[j]
  /\ {LeafChain[i] : i \in 1..Len(LeafChain)} = TreeLeaves
  /\ NonDecreasing(ChainKeys(LeafChain))

\* the keys stored in leaf p: those of the slots that hold a record id
StoredKeys(p) ==
  {Word(p, LeafKey(i)) : i \in {n \in 0..(leafOccupancy - 1) :
                                  Word(p, LeafRidPage(n)) # INVALID_NUMBER}}

\* the keys stored in the subtree of page p, which is h levels above the leaves
RECURSIVE SubtreeKeys(_, _)
SubtreeKeys(p, h) ==
  IF p \notin 1..Len(pages) THEN {}
  ELSE IF h <= 0 THEN StoredKeys(p)
  ELSE UNION {SubtreeKeys(c, h - 1) : c \in Children(p)}

\* separator i of internal node p, h levels above the leaves, splits the keys
\* of the subtrees of child[i] and child[i + 1]
Separates(p, h, i) ==
  /\ \A k \in SubtreeKeys(Word(p, NonLeafPageNo(i)), h - 1) :
        k < Word(p, NonLeafKey(i))
  /\ \A k \in SubtreeKeys(Word(p, NonLeafPageNo(i + 1)), h - 1) :
        k >= Word(p, NonLeafKey(i))

RECURSIVE SeparatorInv(_, _)
SeparatorInv(p, h) ==
  \/ h <= 0
  \/ p \notin 1..Len(pages)
  \/ /\ \A i \in 0..(SepCount(p) - 1) : Separates(p, h, i)
     /\ \A c \in Children(p) : SeparatorInv(c, h - 1)

\* C13: after any inserts, for every internal node and every populated
\* separator i, the keys stored below child[i] are less than key[i] and the
\* keys stored below child[i + 1] are greater than or equal to key[i].
C13_Separators ==
  ~RootIsLeaf => SeparatorInv(rootPageNum, Word(rootPageNum, NonLeafLevel))

\* page p is the root of a subtree of height h: an internal node of level h
\* whose children are subtrees of height h - 1, or for h = 0 a leaf
RECURSIVE Balanced(_, _)
Balanced(p, h) ==
  /\ p \in 2..Len(pages)
  /\ h >= 0
  /\ h > 0 => /\ Word(p, NonLeafLevel) = h
              /\ \A c \in Children(p) : Balanced(c, h - 1)

\* C14: after any inserts every path from the root to a leaf has the same
\* length, and the level of each internal node is its height above the
\* leaves (1 for a node whose children are leaves).
C14_Balance ==
  ~RootIsLeaf => Balanced(rootPageNum, Word(rootPageNum, NonLeafLevel))

\* ceil(n / 2)
Half(n) == (n + 1) \div 2

\* every node of the subtree of page p, h levels above the leaves, holds at
\* least half of its capacity (pages the file does not have are passed over)
RECURSIVE HalfFull(_, _)
HalfFull(p, h) ==
  \/ p \notin 1..Len(pages)
  \/ IF h <= 0 THEN LiveCount(p) >= Half(leafOccupancy)
     ELSE /\ SepCount(p) >= Half(nodeOccupancy)
          /\ \A c \in Children(p) : HalfFull(c, h - 1)

\* C15: after any inserts every leaf and every internal node other than the
\* root holds at least ceil(capacity / 2) live entries, and the root holds at
\* least one entry once an entry has been inserted.
C15_MinOccupancy ==
  inserted # <<>>
  => IF RootIsLeaf THEN LiveCount(rootPageNum) >= 1
     ELSE /\ SepCount(rootPageNum) >= 1
          /\ \A c \in Children(rootPageNum) :
                HalfFull(c, Word(rootPageNum, NonLeafLevel) - 1)

\* the root page number recorded in the metadata page of the file
MetaRoot == Word(1, MetaRootPageNo)

\* C17: after every completed insert the root page number stored in the
\* metadata page equals the page number of the current root node
C17_MetaRoot ==
  (last.op \in {"load", "insertEntry"} /\ last.err = "") => MetaRoot = rootPageNum

\* the least and the greatest value a scan is started with
ScanLowest == CHOOSE v \in ScanVals : \A w \in ScanVals : v <= w
ScanHighest == CHOOSE v \in ScanVals : \A w \in ScanVals : w <= v

\* a client that calls scanNext on the outcome o of a call until a call
\* raises: the set of pairs <<record ids returned, exception that ended it>>
RECURSIVE ScanRun(_, _, _)
ScanRun(o, acc, fuel) ==
  IF o.err # "" THEN {<<acc, o.err>>}
  ELSE IF fuel = 0 THEN {<<acc, "More">>}
  ELSE UNION {ScanRun(n, IF n.err = "" THEN Append(acc, n.outRid) ELSE acc,
                      fuel - 1) : n \in scanNext(o)}

\* the possible results of a scan of the full range of the index m
FullScan(m) ==
  UNION {ScanRun(o, <<>>, MaxInserts + MaxOps + 1) :
           o \in startScan(m, ScanLowest, GTE, ScanHighest, LTE)}

\* no scan has been started on the index object with valid operators
NeverScanned == lowOp = 0 /\ ~scanExecuting

\* C16: an index built by inserts alone can be closed and opened again on
\* its file, and the scan of the full range then gives the record ids, and
\* ends, as the scan of the full range before the close did
C16_Reopen ==
  [][(last'.op = "reopen" /\ NeverScanned)
       => /\ last'.err = ""
          /\ FullScan(Cur') = FullScan(Cur)]_vars

\* the entries <<key, rid page, rid slot>> of slots 0..n-1 of the leaf p of
\* the file pg
EntriesOf(pg, p, n) ==
  [i \in 1..n |-> <<pg[p][LeafKey(i - 1)], pg[p][LeafRidPage(i - 1)],
                    pg[p][LeafRidSlot(i - 1)]>>]

\* slots from..leafOccupancy-1 of the leaf p of the file pg are empty
EmptyFrom(pg, p, from) ==
  \A i \in from..(leafOccupancy - 1) : pg[p][LeafRidPage(i)] = INVALID_NUMBER

\* the sequences s and t hold the same elements the same number of times
SameBag(s, t) ==
  /\ Len(s) = Len(t)
  /\ \A e \in {s[i] : i \in DOMAIN s} \cup {t[i] : i \in DOMAIN t} :
        Cardinality({i \in DOMAIN s : s[i] = e})
          = Cardinality({i \in DOMAIN t : t[i] = e})

\* the insert of this step finds the root leaf full (insertToLeaf, 258-268)
RootLeafFull == RootIsLeaf /\ LiveCount(rootPageNum) = leafOccupancy

\* the step is a completed insert
InsertStep == last'.op \in {"load", "insertEntry"} /\ last'.err = ""

\* what the split of the full leaf orig by the insert of <<key, rid>> has to
\* leave in the file pg2, the file having been pg1 before
LeafSplitOk(pg1, pg2, orig, key, rid) ==
  LET sib == pg2[orig][LeafSib]
      h == Half(leafOccupancy + 1)
      all == EntriesOf(pg2, orig, h) \o EntriesOf(pg2, sib, leafOccupancy + 1 - h)
  IN /\ sib \in (Len(pg1) + 1)..Len(pg2)
     /\ SameBag(all, Append(EntriesOf(pg1, orig, leafOccupancy),
                            <<key, rid[1], rid[2]>>))
     /\ \A i \in 1..(Len(all) - 1) : all[i][1] <= all[i + 1][1]
     /\ EmptyFrom(pg2, orig, h)
     /\ EmptyFrom(pg2, sib, leafOccupancy + 1 - h)

\* C18: an insert that reaches a full leaf leaves the old entries and the new
\* one, sorted, in the leaf (the first ceil((L+1)/2), slots 0..) and in the
\* new sibling (the rest, slots 0..), and promotes the first key of the
\* sibling to the parent
C18_LeafSplit ==
  [][(InsertStep /\ RootLeafFull)
       => /\ LeafSplitOk(pages, pages', rootPageNum, last'.args[1], last'.args[2])
          /\ rootPageNum' \in 1..Len(pages')
          /\ pages'[rootPageNum'][NonLeafKey(0)]
               = pages'[pages'[rootPageNum][LeafSib]][LeafKey(0)]]_vars

\* the node root of the file pg is an internal node of the given level with
\* the one separator key between the children left and right
RootOver(pg, root, level, key, left, right) ==
  /\ root \in 1..Len(pg)
  /\ pg[root][NonLeafLevel] = level
  /\ pg[root][NonLeafKey(0)] = key
  /\ pg[root][NonLeafPageNo(0)] = left
  /\ pg[root][NonLeafPageNo(1)] = right
  /\ \A i \in 2..nodeOccupancy : pg[root][NonLeafPageNo(i)] = INVALID_NUMBER

\* C19: when the root leaf splits, the new root is an internal node of level
\* 1 with exactly one separator, the promoted key, between the old root
\* (child 0) and the new sibling (child 1)
C19_RootGrowth ==
  [][(InsertStep /\ RootLeafFull)
       => /\ rootPageNum' # rootPageNum
          /\ pages'[rootPageNum][LeafSib] \in 1..Len(pages')
          /\ RootOver(pages', rootPageNum', 1,
                      pages'[pages'[rootPageNum][LeafSib]][LeafKey(0)],
                      rootPageNum, pages'[rootPageNum][LeafSib])]_vars

(***************************************************************************)
(* The split of an internal node, checked on insertToNonLeaf alone: no run *)
(* of Spec fills an internal node.  The file holds a full internal node    *)
(* with sorted separators, and the call carries a new separator and the    *)
(* page of the leaf a leaf split has just allocated.                       *)
(***************************************************************************)
\* the separators of the node and of the call
SplitKeys == 1..6

\* the page of an internal node with the given level, separators and children
NodePage(level, seps, childs) ==
  [w \in 0..(PageWords - 1) |->
     IF w = NonLeafLevel THEN level
     ELSE IF w - NonLeafKey(0) \in 0..(Len(seps) - 1) THEN seps[w - NonLeafKey(0) + 1]
     ELSE IF w - NonLeafPageNo(0) \in 0..(Len(childs) - 1)
          THEN childs[w - NonLeafPageNo(0) + 1]
     ELSE 0]

\* the pages of the file: the full node, its children (the initial root leaf
\* and later leaves), the new leaf, and for a node that is not the root its
\* parent and the parent's other child
SplitNodePage == 3
SplitChildren == <<2>> \o [i \in 1..nodeOccupancy |-> SplitNodePage + i]
SplitNewLeaf == SplitNodePage + nodeOccupancy + 1
SplitParent == SplitNewLeaf + 1

\* the sorted sequences of nodeOccupancy distinct separators
SortedSeps ==
  {q \in [1..nodeOccupancy -> SplitKeys] :
     \A i \in 1..(nodeOccupancy - 1) : q[i] < q[i + 1]}

SplitFile(seps, isRoot) ==
  <<MetaPage, ZeroPage, NodePage(1, seps, SplitChildren)>>
    \o [i \in 1..(nodeOccupancy + 1) |-> ZeroPage]
    \o (IF isRoot THEN <<>>
        ELSE <<NodePage(2, <<0>>, <<SplitParent + 1, SplitNodePage>>),
               NodePage(1, <<>>, <<>>)>>)

\* the pins the earlier inserts have left: insertToNonLeaf leaves a pin on
\* the node for every separator it stored, the leaf split holds the new leaf
SplitPins(isRoot) ==
  [p \in 1..(IF isRoot THEN SplitNewLeaf ELSE SplitParent + 1) |->
     IF p = SplitNodePage THEN nodeOccupancy
     ELSE IF p \in {SplitNewLeaf, SplitParent} THEN 1 ELSE 0]

InitSplit ==
  \E seps \in SortedSeps, isRoot \in BOOLEAN :
    \E key \in SplitKeys \ {seps[i] : i \in DOMAIN seps} :
      /\ pages = SplitFile(seps, isRoot)
      /\ pinCnt = SplitPins(isRoot)
      /\ rootPageNum = IF isRoot THEN SplitNodePage ELSE SplitParent
      /\ initialRootPageNum = 2
      /\ treeStack = IF isRoot THEN <<>> ELSE <<SplitParent>>
      /\ scanExecuting = FALSE
      /\ nextEntry = -1
      /\ currentPageNum = 0
      /\ currentPageData = Nullptr
      /\ lowOp = 0
      /\ highOp = 0
      /\ lowValInt = 0
      /\ highValInt = 0
      /\ inserted = <<>>
      /\ returned = <<>>
      /\ scanOpen = FALSE
      /\ last = [op |-> "pending", args |-> <<key, SplitNewLeaf>>, err |-> "",
                 ret |-> <<>>, reads |-> 0, exec |-> FALSE]
      /\ nOps = 0

\* insertToNonLeaf(key, pageNo, newSiblingPage) on the full node
SplitNode ==
  /\ last.op = "pending"
  /\ LET m == insertToNonLeaf(Cur, last.args[1], SplitNodePage, last.args[2])
     IN /\ Commit(m)
        /\ last' = Outcome("insertToNonLeaf", last.args, m)
  /\ UNCHANGED <<inserted, returned, scanOpen, nOps>>

NextSplit == SplitNode

SpecSplit == InitSplit /\ [][NextSplit]_vars

\* the separators and the children of the internal node p of the file pg
SepsOf(pg, p, n) == [i \in 1..n |-> pg[p][NonLeafKey(i - 1)]]
ChildrenOf(pg, p, n) == [i \in 1..n |-> pg[p][NonLeafPageNo(i - 1)]]

\* the sequence q with x put after its first pos elements
InsertAt(q, pos, x) == SubSeq(q, 1, pos) \o <<x>> \o SubSeq(q, pos + 1, Len(q))

\* the node p of the file pg holds exactly the separators seps and the
\* children childs, in slots 0.., and no other child
NodeHolds(pg, p, seps, childs) ==
  /\ SepsOf(pg, p, Len(seps)) = seps
  /\ ChildrenOf(pg, p, Len(childs)) = childs
  /\ \A i \in Len(childs)..nodeOccupancy : pg[p][NonLeafPageNo(i)] = INVALID_NUMBER

\* the node par of the file pg holds the separator key with right child right
Promoted(pg, par, key, right) ==
  \E i \in 0..(nodeOccupancy - 1) :
    pg[par][NonLeafKey(i)] = key /\ pg[par][NonLeafPageNo(i + 1)] = right

\* what the split of the full node p by the insert of separator key with
\* right child c has to leave in the file pg2, the file having been pg1
\* before: mid is the place of the promoted separator in the merged sequence
NodeSplitOk(pg1, pg2, p, key, c, mid) ==
  LET old == SepsOf(pg1, p, nodeOccupancy)
      pos == Cardinality({i \in DOMAIN old : old[i] < key})
      seps == InsertAt(old, pos, key)
      childs == InsertAt(ChildrenOf(pg1, p, nodeOccupancy + 1), pos + 1, c)
  IN \E sib \in (Len(pg1) + 1)..Len(pg2) :
       /\ NodeHolds(pg2, p, SubSeq(seps, 1, mid - 1), SubSeq(childs, 1, mid))
       /\ NodeHolds(pg2, sib, SubSeq(seps, mid + 1, Len(seps)),
                    SubSeq(childs, mid + 1, Len(childs)))
       /\ \E par \in (1..Len(pg2)) \ {p, sib} : Promoted(pg2, par, seps[mid], sib)

ShortSeps ==
  UNION {{q \in [1..n -> SplitKeys] : \A i \in 1..(n - 1) : q[i] < q[i + 1]} :
           n \in 1..(nodeOccupancy - 1)}

\* the file: the root node with its children, the leaves and the new leaf
EntryFile(seps) ==
  <<MetaPage, ZeroPage,
    NodePage(1, seps, SubSeq(SplitChildren, 1, Len(seps) + 1))>>
    \o [i \in 1..(nodeOccupancy + 1) |-> ZeroPage]

InitEntry ==
  \E seps \in ShortSeps :
    \E key \in SplitKeys \ {seps[i] : i \in DOMAIN seps} :
      /\ pages = EntryFile(seps)
      /\ pinCnt = [p \in 1..SplitNewLeaf |->
                     IF p = SplitNodePage THEN Len(seps)
                     ELSE IF p = SplitNewLeaf THEN 1 ELSE 0]
      /\ rootPageNum = SplitNodePage
      /\ initialRootPageNum = 2
      /\ treeStack = <<>>
      /\ scanExecuting = FALSE
      /\ nextEntry = -1
      /\ currentPageNum = 0
      /\ currentPageData = Nullptr
      /\ lowOp = 0
      /\ highOp = 0
      /\ lowValInt = 0
      /\ highValInt = 0
      /\ inserted = <<>>
      /\ returned = <<>>
      /\ scanOpen = FALSE
      /\ last = [op |-> "pending", args |-> <<key, SplitNewLeaf, Len(seps)>>,
                 err |-> "", ret |-> <<>>, reads |-> 0, exec |-> FALSE]
      /\ nOps = 0

\* sortedNonLeafEntry(currNonLeafNode, key, newPageId) on the node
SortedEntry ==
  /\ last.op = "pending"
  /\ LET m == sortedNonLeafEntry(Cur, SplitNodePage, last.args[1], last.args[2])
     IN /\ Commit(m)
        /\ last' = Outcome("sortedNonLeafEntry", last.args, m)
  /\ UNCHANGED <<inserted, returned, scanOpen, nOps>>

NextEntry == SortedEntry

SpecEntry == InitEntry /\ [][NextEntry]_vars

\* what the insert of separator key with right child c has to leave in the
\* node p that held count separators: pos is the place of key among them
SortedEntryOk(pg1, pg2, p, key, c, count) ==
  LET old == SepsOf(pg1, p, count)
      pos == Cardinality({i \in DOMAIN old : old[i] < key})
  IN NodeHolds(pg2, p, InsertAt(old, pos, key),
               InsertAt(ChildrenOf(pg1, p, count + 1), pos + 1, c))

LiveLeq(p, key) ==
  Cardinality({i \in 0..(SepCount(p) - 1) : Word(p, NonLeafKey(i)) <= key})

\* the child of the internal node p whose key range contains key
KeyChild(p, key) == Word(p, NonLeafPageNo(LiveLeq(p, key)))

\* the leaf whose key range contains key, below the node p that is h levels
\* above the leaves
RECURSIVE KeyLeaf(_, _, _)
KeyLeaf(p, h, key) ==
  IF h <= 0 \/ p \notin 1..Len(pages) THEN p
  ELSE KeyLeaf(KeyChild(p, key), h - 1, key)

\* the keys the index is probed with
ProbeKeys == Keys \cup ScanVals

\* C22: with an internal root, the traversal of an insert with key k reaches
\* the leaf found by following at every node the child after the separators
\* that are at most k, and the descent of startScan for the low value k
\* follows that child of the root
C22_Descent ==
  ~RootIsLeaf
  => \A key \in ProbeKeys :
       /\ traverse(Cur, key, rootPageNum, RootLevelArg, MaxDepth).ret
            = KeyLeaf(rootPageNum, Word(rootPageNum, NonLeafLevel), key)
       /\ \A g \in GarbagePages(Cur) : g = KeyChild(rootPageNum, key)

\* the leaves of the file: the initial root leaf and the leaves of the tree
LeafPages == ({initialRootPageNum} \cup TreeLeaves) \cap (1..Len(pages))

\* slot i of the leaf p holds a live entry
LiveSlot(p, i) == Word(p, LeafRidPage(i)) # INVALID_NUMBER

\* the live slots of the leaf p are its first slots
LivePrefix(p) ==
  \A i, j \in 0..(leafOccupancy - 1) : (i < j /\ LiveSlot(p, j)) => LiveSlot(p, i)

\* C23: in every leaf the live entries occupy the first slots and no slot
\* after them is live, so that the count up to the first INVALID record id
\* is the number of entries stored: in the root leaf that has never split,
\* the number of inserts that returned
C23_LivePrefix ==
  /\ \A p \in LeafPages : LivePrefix(p)
  /\ Len(pages) = 2 => LiveCount(initialRootPageNum) = Len(inserted)

\* the last call was a startScan that raised one of its errors
FailedStart ==
  last.op = "startScan" /\ last.err \in {"BadOpcodes", "BadScanrange", "NoSuchKey"}

\* C25: a startScan that raises BadOpcodes, BadScanrange or NoSuchKey leaves
\* no scan executing, and a scanNext or endScan called right after it raises
\* ScanNotInitialized
C25_FailedStartIdle ==
  [][FailedStart
       => /\ ~scanExecuting
          /\ last'.op \in {"scanNext", "endScan"}
               => last'.err = "ScanNotInitialized"]_vars

(***************************************************************************)
(* The scan, checked on an index opened on an existing file (constructor,  *)
(* lines 57-72).  No run of Spec stores a key that passes the key test of  *)
(* startScan, so there no startScan returns.  The file holds a chain of    *)
(* leaves with sorted keys in their first slots; its metadata page names   *)
(* the first leaf, which insertEntry never changes.                        *)
(***************************************************************************)
\* the number of leaves of the file
MaxLeaves == 2

\* the keys stored in the file
FileKeys == {-2, 4, 6}

\* the sum of the first n elements of the sequence q of numbers
RECURSIVE SumTo(_, _)
SumTo(q, n) == IF n = 0 THEN 0 ELSE q[n] + SumTo(q, n - 1)

\* the page of leaf i of the file: the initial root, then the pages after
\* the page of the internal root
FileLeafPage(i) == IF i = 1 THEN 2 ELSE i + 2

\* the entry <<key, rid>> number n of the file (counted from 1)
FileEntry(ks, n) == <<ks[n], <<1, n>>>>

\* the image of a leaf holding the entries es in its first slots, with the
\* right sibling sib
LeafImage(es, sib) ==
  [w \in 0..(PageWords - 1) |->
     IF \E i \in DOMAIN es : w = LeafKey(i - 1)
       THEN es[CHOOSE i \in DOMAIN es : w = LeafKey(i - 1)][1]
     ELSE IF \E i \in DOMAIN es : w = LeafRidPage(i - 1)
       THEN es[CHOOSE i \in DOMAIN es : w = LeafRidPage(i - 1)][2][1]
     ELSE IF \E i \in DOMAIN es : w = LeafRidSlot(i - 1)
       THEN es[CHOOSE i \in DOMAIN es : w = LeafRidSlot(i - 1)][2][2]
     ELSE IF w = LeafSib THEN sib ELSE 0]

\* leaf i of the file whose leaves hold sizes[1], sizes[2], .. of the keys ks
FileLeaf(ks, sizes, i) ==
  LeafImage([j \in 1..sizes[i] |-> FileEntry(ks, SumTo(sizes, i - 1) + j)],
            IF i < Len(sizes) THEN FileLeafPage(i + 1) ELSE 0)

\* the internal root over the leaves: the first key of every leaf but the
\* first, and the pages of the leaves
FileRoot(ks, sizes) ==
  NodePage(1, [i \in 1..(Len(sizes) - 1) |-> ks[SumTo(sizes, i) + 1]],
           [i \in 1..Len(sizes) |-> FileLeafPage(i)])

ScanFile(ks, sizes) ==
  IF Len(sizes) = 1 THEN <<MetaPage, FileLeaf(ks, sizes, 1)>>
  ELSE <<MetaPage, FileLeaf(ks, sizes, 1), FileRoot(ks, sizes)>>
         \o [i \in 1..(Len(sizes) - 1) |-> FileLeaf(ks, sizes, i + 1)]

\* the constructor on the existing file ScanFile(ks, sizes)
InitScan ==
  \E n \in 1..MaxLeaves :
    \E sizes \in [1..n -> 1..leafOccupancy] :
      \E ks \in [1..SumTo(sizes, n) -> FileKeys] :
        /\ \A i \in 1..(Len(ks) - 1) : ks[i] <= ks[i + 1]
        /\ pages = ScanFile(ks, sizes)
        /\ pinCnt = [p \in 1..Len(ScanFile(ks, sizes)) |-> 0]
        /\ rootPageNum = 2
        /\ initialRootPageNum = 2
        /\ treeStack = <<>>
        /\ scanExecuting = FALSE
        /\ nextEntry = -1
        /\ currentPageNum = 0
        /\ currentPageData = Nullptr
        /\ lowOp = 0
        /\ highOp = 0
        /\ lowValInt = 0
        /\ highValInt = 0
        /\ inserted = [i \in 1..Len(ks) |-> FileEntry(ks, i)]
        /\ returned = <<>>
        /\ scanOpen = FALSE
        /\ last = [op |-> "open", args |-> <<>>, err |-> "", ret |-> <<>>,
                   reads |-> 1, exec |-> FALSE]
        /\ nOps = 0

\* the first call on the opened index: startScan
OpenStartScan ==
  /\ last.op = "open"
  /\ \E lowVal \in ScanVals, highVal \in ScanVals, ops \in ScanOpcodes :
       \E m \in startScan(Cur, lowVal, ops[1], highVal, ops[2]) :
          /\ Commit(m)
          /\ last' = Outcome("startScan", <<lowVal, ops[1], highVal, ops[2]>>, m)
          /\ scanOpen' = (m.err = "")
  /\ UNCHANGED <<inserted, returned, nOps>>

\* scanNext while the scan that startScan opened has not raised
OpenScanNext ==
  /\ scanOpen
  /\ last.err = ""
  /\ \E m \in scanNext(Cur) :
       /\ Commit(m)
       /\ last' = Outcome("scanNext", <<>>, m)
       /\ returned' = IF m.err = "" THEN Append(returned, m.outRid) ELSE returned
  /\ UNCHANGED <<inserted, scanOpen, nOps>>

NextScan == OpenStartScan \/ OpenScanNext

\* the client of a scan goes on calling scanNext until it raises
SpecScan == InitScan /\ [][NextScan]_vars /\ WF_vars(OpenScanNext)

\* the record ids returned so far are those of different entries of the index
ReturnedEntries ==
  /\ \A i \in DOMAIN returned : \E e \in DOMAIN inserted : inserted[e][2] = returned[i]
  /\ \A i, j \in DOMAIN returned : i # j => returned[i] # returned[j]

\* C24: after a startScan that returned, on an index of n entries, the
\* scanNext calls return record ids of different entries, at most n of them,
\* and a scanNext call eventually raises IndexScanCompleted
C24_ScanCompletes ==
  /\ [](scanOpen => (ReturnedEntries /\ Len(returned) <= Len(inserted)))
  /\ (scanOpen ~> ScanDone)

\* a scan has returned the record ids of two entries and then completed
C24_Witness == ScanDone /\ Len(returned) = 2

====
